---- MODULE Spec2Model ----
(***************************************************************************)
(* A model of the two scripts of src/memo:                                 *)
(*   memo_llm.py   class MemoLLM: the asynchronous log writer              *)
(*                 (start_logging, stop_logging, log_writer,               *)
(*                 log_utterance), say, listen, llm_action and run;        *)
(*   memo_demo.py  class ConversationDemo: say, play_audio, ask_yesno,     *)
(*                 ask_entity, ask_open, llm_request and run.              *)
(* Spec       : one MemoLLM object; the main thread calls its logging      *)
(*              methods and run, the log_writer threads run concurrently.  *)
(* FairSpec   : Spec with the threads scheduled fairly.                    *)
(* SpecDriver : one call of a driver primitive or of ConversationDemo.run, *)
(*              on the single control thread.                              *)
(***************************************************************************)
EXTENDS Integers, Sequences, FiniteSets, TLC

\* ------------------------------------------------------------------ bounds
\* start_logging calls made on one MemoLLM object
MaxSessions == 2
\* log_utterance calls made on one MemoLLM object
MaxRecords == 2
\* stop_logging calls made directly on one MemoLLM object
MaxStops == 2
\* KeyboardInterrupts delivered to the main thread during run
MaxInterrupts == 2
\* max_attempts of a direct call of an ask primitive
MaxAttempts == 3

\* ------------------------------------------------------------- the values
\* self.log_queue = None, self.log_thread = None (memo_llm.py:42-43); the
\* Queue and Thread objects made by the k-th start_logging are object k.
NoObject == 0

\* The item stop_logging puts on the queue (None, the writer's exit signal).
ExitSignal == <<"None">>

\* f'[{timestamp}] ### START NEW LOG ###'
StartMarker == <<"[timestamp]", "### START NEW LOG ###">>

\* f"[{timestamp}] {speaker}: {text}"
Record(speaker, text) == <<"[timestamp]", speaker, ": ", text>>

\* The '\n' that log_writer appends to every item it writes.
NL == <<"\n">>

\* f.write(item + '\n'): what one write call adds to the file object.
WriteData(item) == <<item, NL>>

Speakers == {"Memo", "Persoon"}
Texts == {"Hallo"}
LogIds == {"a"}

ClosingMemo == "Oke dat was het weer, bedankt voor dit fijne gesprek. Tot ziens!"

\* ----------------------------------------------------------------- state
VARIABLES
    \* ---- the MemoLLM object and its threads
    log_queue,    \* self.log_queue: NoObject or a Queue object
    log_thread,   \* self.log_thread: NoObject or a Thread object
    sessions,     \* Queue/Thread objects made so far
    logsDir,      \* the folder "logs" exists
    queue,        \* queue[q]: the items on Queue object q, oldest first
    thr,          \* thr[t]: the log_writer thread t: pc, log_path, the queue
                  \* its get() waits on, the item it holds, its file buffer
    files,        \* files[id]: the content of logs/<id>.log (files that exist)
    mainPc,       \* the main thread's position in the MemoLLM methods
    returned,     \* the method that returned in the main thread's last step
    interrupts,   \* KeyboardInterrupts delivered so far
    utterCalls,   \* log_utterance calls so far
    stops,        \* direct stop_logging calls so far
    put,          \* history: put[q] is every item ever put on q, in order
    out,          \* history: out[t] is what thread t flushed to its file
    \* ---- the services, shared by both scripts
    spoken,       \* the speech outputs so far: [via, text]
    exc,          \* the exception that left the top-level call
    gptScript,    \* the completion service: its outcome for the k-th request
    gptReqs,      \* completion requests issued so far
    recogReqs,    \* recognition requests issued so far
    \* ---- the control thread of the driver (SpecDriver)
    device,       \* the kind of ConversationDemo.device
    entry,        \* the top-level call: the method and its max_attempts
    pc,           \* the position in the top-level call
    frame,        \* the ask primitive being executed
    loc,          \* the local variables of ConversationDemo.run
    last,         \* the ask primitive that returned last, and its value
    replies,      \* history: the replies the current ask call received
    callSays,     \* history: say calls made by the current ask call
    llmCalls,     \* history: llm_request / llm_action calls made
    notRecognized,\* "device not recognized" messages printed
    clip,         \* the sample width of the audio_file given to play_audio
    speakerReqs   \* requests made to self.device.speaker

objVars == <<log_queue, log_thread, sessions, logsDir>>
qVars == <<queue, put>>
wVars == <<thr, files, out>>
logVars == <<objVars, qVars, wVars>>
cntVars == <<interrupts, utterCalls, stops>>
memoVars == <<mainPc, returned, cntVars>>
svcVars == <<spoken, exc, gptScript, gptReqs, recogReqs>>
audioVars == <<clip, speakerReqs>>
drvVars == <<device, entry, pc, frame, loc, last, replies, callSays, llmCalls,
             notRecognized, audioVars>>
vars == <<logVars, memoVars, svcVars, drvVars>>

Objects == 1..MaxSessions

NoThread == [pc |-> "unborn", path |-> "", wq |-> NoObject, item |-> <<>>, buf |-> <<>>]

Alive(t) == thr[t].pc \notin {"unborn", "dead"}

\* The thread is inside the with block of log_writer: its file is open.
FileOpen(t) == thr[t].pc \in {"get", "blocked", "write", "flush", "exit"}

\* ------------------------------------------------------------ queue.Queue
QueuePut(q, item) == Append(q, item)

QueueGetLifo(q) == [item |-> q[Len(q)], rest |-> SubSeq(q, 1, Len(q) - 1)]

\* Queue.get on a non-empty queue: the oldest item leaves the queue.
QueueGet(q) == [item |-> Head(q), rest |-> Tail(q)]

\* self.log_queue.put(item), recorded in the history
PutOn(q, item) ==
    /\ queue' = [queue EXCEPT ![q] = QueuePut(@, item)]
    /\ put' = [put EXCEPT ![q] = Append(@, item)]

\* --------------------------------------------------- MemoLLM.__init__
InitLogQueueEager == NoObject + 1

\* Line 42: self.log_queue = None
InitLogQueue == NoObject

\* Lines 42-43, and the state of the world around a new object.
InitMemo ==
    /\ log_queue = InitLogQueue
    /\ log_thread = NoObject
    /\ sessions = 0
    /\ logsDir = FALSE
    /\ queue = [q \in Objects |-> <<>>]
    /\ thr = [t \in Objects |-> NoThread]
    /\ files = [id \in {} |-> <<>>]
    /\ mainPc = "idle"
    /\ returned = "none"
    /\ interrupts = 0
    /\ utterCalls = 0
    /\ stops = 0
    /\ put = [q \in Objects |-> <<>>]
    /\ out = [t \in Objects |-> <<>>]

\* ------------------------------------------------ MemoLLM.start_logging
\* The callers start a session only when none is active: start_logging with
\* a writer alive is left undefined by the logger's contract.
SessionActive == \E t \in Objects : Alive(t)

\* Lines 46-51: the folder, a new Queue, a new daemon Thread, started.
StartLogging(log_id) ==
    /\ mainPc = "idle"
    /\ sessions < MaxSessions
    /\ ~SessionActive
    /\ LET s == sessions + 1 IN
        /\ sessions' = s
        /\ log_queue' = s
        /\ log_thread' = s
        /\ thr' = [thr EXCEPT ![s] = [NoThread EXCEPT !.pc = "open", !.path = log_id]]
    /\ logsDir' = TRUE
    /\ mainPc' = "start_put"
    /\ returned' = "none"
    /\ UNCHANGED <<qVars, files, out, cntVars, svcVars, drvVars>>

StartLoggingSkipMarker ==
    /\ mainPc = "start_put"
    /\ mainPc' = "idle"
    /\ returned' = "start_logging"
    /\ UNCHANGED <<objVars, qVars, wVars, cntVars, svcVars, drvVars>>

\* Lines 53-54: the start-of-session marker is put on the queue.
StartLoggingPut ==
    /\ mainPc = "start_put"
    /\ PutOn(log_queue, StartMarker)
    /\ mainPc' = "idle"
    /\ returned' = "start_logging"
    /\ UNCHANGED <<objVars, wVars, cntVars, svcVars, drvVars>>

\* ------------------------------------------------ MemoLLM.log_utterance
\* Line 72, if self.log_queue: a Queue object is true, None is false.
LogUtteranceGuard == log_queue # NoObject

\* Lines 72-74.
LogUtterance(speaker, text) ==
    /\ mainPc = "idle"
    /\ utterCalls < MaxRecords
    /\ utterCalls' = utterCalls + 1
    /\ IF LogUtteranceGuard
       THEN PutOn(log_queue, Record(speaker, text))
       ELSE UNCHANGED qVars
    /\ returned' = "log_utterance"
    /\ UNCHANGED <<objVars, wVars, mainPc, interrupts, stops, svcVars, drvVars>>

\* ------------------------------------------------- MemoLLM.stop_logging
JoinNoWait(t) == TRUE

\* self.log_thread.join() returns once the thread has terminated.
JoinDone(t) == thr[t].pc = "dead"

StopLoggingPutNothing(joinPc, retPc) ==
    /\ mainPc' = IF log_thread # NoObject THEN joinPc ELSE retPc
    /\ UNCHANGED <<objVars, qVars, wVars>>

\* Lines 57-59: the exit signal is put on the queue; the call goes on to
\* join (joinPc) or, with no thread, returns (retPc).
StopLoggingPut(joinPc, retPc) ==
    /\ IF log_queue # NoObject
       THEN PutOn(log_queue, ExitSignal)
       ELSE UNCHANGED qVars
    /\ mainPc' = IF log_thread # NoObject THEN joinPc ELSE retPc
    /\ UNCHANGED <<objVars, wVars>>

StopLogging ==
    /\ mainPc = "idle"
    /\ stops < MaxStops
    /\ stops' = stops + 1
    /\ StopLoggingPut("stop_join", "idle")
    /\ returned' = IF log_thread # NoObject THEN "none" ELSE "stop_logging"
    /\ UNCHANGED <<interrupts, utterCalls, svcVars, drvVars>>

\* Line 60: join returns.
StopLoggingJoin ==
    /\ mainPc = "stop_join"
    /\ JoinDone(log_thread)
    /\ mainPc' = "idle"
    /\ returned' = "stop_logging"
    /\ UNCHANGED <<logVars, cntVars, svcVars, drvVars>>

\* --------------------------------------------------- MemoLLM.log_writer
\* Line 63: open(log_path, 'a') makes the file if it is absent.
WriterOpen(t) ==
    /\ thr[t].pc = "open"
    /\ files' = [id \in DOMAIN files \cup {thr[t].path} |->
                    IF id \in DOMAIN files THEN files[id] ELSE <<>>]
    /\ thr' = [thr EXCEPT ![t].pc = "get"]
    /\ UNCHANGED <<objVars, qVars, out, memoVars, svcVars, drvVars>>

\* Lines 65-67 with an item available on queue q: the item is taken; None
\* leaves the loop.
Take(t, q) ==
    LET g == QueueGet(queue[q]) IN
    /\ queue' = [queue EXCEPT ![q] = g.rest]
    /\ thr' = [thr EXCEPT ![t].pc = IF g.item = ExitSignal THEN "exit" ELSE "write",
                          ![t].item = g.item,
                          ![t].wq = NoObject]

\* Line 65: self.log_queue is read and get() is called on that Queue; on an
\* empty queue the thread blocks inside get().
WriterGet(t) ==
    /\ thr[t].pc = "get"
    /\ IF queue[log_queue] # <<>>
       THEN Take(t, log_queue)
       ELSE /\ thr' = [thr EXCEPT ![t].pc = "blocked", ![t].wq = log_queue]
            /\ UNCHANGED queue
    /\ UNCHANGED <<objVars, put, files, out, memoVars, svcVars, drvVars>>

\* Line 65: the blocked get() returns once its queue holds an item.
WriterWake(t) ==
    /\ thr[t].pc = "blocked"
    /\ queue[thr[t].wq] # <<>>
    /\ Take(t, thr[t].wq)
    /\ UNCHANGED <<objVars, put, files, out, memoVars, svcVars, drvVars>>

WriterWriteDrop(t) ==
    /\ thr[t].pc = "write"
    /\ thr' = [thr EXCEPT ![t].pc = "flush"]
    /\ UNCHANGED <<objVars, qVars, files, out, memoVars, svcVars, drvVars>>

\* Line 68: f.write(item + '\n') into the file object's buffer.
WriterWrite(t) ==
    /\ thr[t].pc = "write"
    /\ thr' = [thr EXCEPT ![t].pc = "flush", ![t].buf = @ \o WriteData(thr[t].item)]
    /\ UNCHANGED <<objVars, qVars, files, out, memoVars, svcVars, drvVars>>

\* The file object's buffer reaches the file.
FlushBuffer(t) ==
    /\ files' = [files EXCEPT ![thr[t].path] = @ \o thr[t].buf]
    /\ out' = [out EXCEPT ![t] = @ \o thr[t].buf]

WriterFlushOnce(t) ==
    /\ thr[t].pc = "flush"
    /\ FlushBuffer(t)
    /\ thr' = [thr EXCEPT ![t].pc = "exit", ![t].buf = <<>>, ![t].item = <<>>]
    /\ UNCHANGED <<objVars, qVars, memoVars, svcVars, drvVars>>

\* Line 69: f.flush().
WriterFlush(t) ==
    /\ thr[t].pc = "flush"
    /\ FlushBuffer(t)
    /\ thr' = [thr EXCEPT ![t].pc = "get", ![t].buf = <<>>, ![t].item = <<>>]
    /\ UNCHANGED <<objVars, qVars, memoVars, svcVars, drvVars>>

\* Lines 67 and 63: break leaves the with block, which closes the file.
WriterClose(t) ==
    /\ thr[t].pc = "exit"
    /\ FlushBuffer(t)
    /\ thr' = [thr EXCEPT ![t].pc = "return", ![t].buf = <<>>, ![t].item = <<>>]
    /\ UNCHANGED <<objVars, qVars, memoVars, svcVars, drvVars>>

\* log_writer returns: the thread has terminated.
WriterReturn(t) ==
    /\ thr[t].pc = "return"
    /\ thr' = [thr EXCEPT ![t].pc = "dead"]
    /\ UNCHANGED <<objVars, qVars, files, out, memoVars, svcVars, drvVars>>

\* ------------------------------------------------------- MemoLLM.say
\* Lines 81-83: one request to the robot's text-to-speech.
MemoSay(text) == Append(spoken, [via |-> "tts", text |-> text])

\* ------------------------------------------------------- MemoLLM.run
\* The main thread enters run (line 139) and its try block (line 140).
RunEnter ==
    /\ mainPc = "idle"
    /\ mainPc' = "run_try"
    /\ returned' = "none"
    /\ UNCHANGED <<logVars, cntVars, svcVars, drvVars>>

\* Line 141: self.start_logging() is called without the log_id that
\* start_logging(self, log_id) requires: the call raises TypeError before
\* anything of start_logging runs. The except clause of line 155 names only
\* KeyboardInterrupt, so the TypeError leaves run.
RunStartLogging ==
    /\ mainPc = "run_try"
    /\ mainPc' = "run_raised"
    /\ exc' = "TypeError"
    /\ UNCHANGED <<logVars, returned, cntVars, spoken, gptScript, gptReqs, recogReqs,
                   drvVars>>

\* A KeyboardInterrupt reaches the main thread inside the try block:
\* control passes to the except clause of line 155.
InterruptTry ==
    /\ mainPc = "run_try"
    /\ interrupts < MaxInterrupts
    /\ interrupts' = interrupts + 1
    /\ mainPc' = "run_except_say"
    /\ UNCHANGED <<logVars, returned, utterCalls, stops, svcVars, drvVars>>

RunExceptSaySilent == spoken

\* Line 156: the closing utterance.
RunExceptSayOut == MemoSay(ClosingMemo)

RunExceptSay ==
    /\ mainPc = "run_except_say"
    /\ spoken' = RunExceptSayOut
    /\ mainPc' = "run_except_stop"
    /\ UNCHANGED <<logVars, returned, cntVars, exc, gptScript, gptReqs, recogReqs,
                   drvVars>>

\* Line 157: stop_logging, lines 57-59.
RunExceptStop ==
    /\ mainPc = "run_except_stop"
    /\ StopLoggingPut("run_except_join", "run_returned")
    /\ UNCHANGED <<returned, cntVars, svcVars, drvVars>>

\* Line 157: stop_logging, line 60, and run returns.
RunExceptJoin ==
    /\ mainPc = "run_except_join"
    /\ JoinDone(log_thread)
    /\ mainPc' = "run_returned"
    /\ UNCHANGED <<logVars, returned, cntVars, svcVars, drvVars>>

\* A KeyboardInterrupt reaches the main thread inside the except clause
\* (lines 156-157): nothing catches it, it leaves run. One that arrives
\* while say waits for the robot may or may not have let the robot speak.
InterruptHandler ==
    /\ mainPc \in {"run_except_say", "run_except_stop", "run_except_join"}
    /\ interrupts < MaxInterrupts
    /\ interrupts' = interrupts + 1
    /\ mainPc' = "run_raised"
    /\ exc' = "KeyboardInterrupt"
    /\ \/ UNCHANGED spoken
       \/ mainPc = "run_except_say" /\ spoken' = MemoSay(ClosingMemo)
    /\ UNCHANGED <<logVars, returned, utterCalls, stops, gptScript, gptReqs, recogReqs,
                   drvVars>>

\* ------------------------------------------------ the recognition service
\* Python's None as a returned value, and its truth test.
None == "None"

Truthy(v) == v # None /\ v # ""

\* The intent names, as the characters "x in reply.intent" looks through.
YESNO_YES == <<"y", "e", "s", "n", "o", "_", "y", "e", "s">>
YESNO_NO == <<"y", "e", "s", "n", "o", "_", "n", "o">>
YESNO_DONTKNOW == <<"y", "e", "s", "n", "o", "_", "d", "o", "n", "t", "k", "n", "o", "w">>
ANIMALS == <<"a", "n", "i", "m", "a", "l", "s">>
ANSWER_ == <<"a", "n", "s", "w", "e", "r", "_">>
FOOD == <<"f", "o", "o", "d">>

\* The operator "in" of Python on two strings: sub occurs in s.
Contains(sub, s) ==
    \E i \in 0..(Len(s) - Len(sub)) : SubSeq(s, i + 1, i + Len(sub)) = sub

\* What the recognition service can answer to one GetIntentRequest:
\* reply.intent (<<>> when no intent was detected),
\* reply.response.query_result.query_text and .parameters (the pairs of an
\* entity name and its value; Dialogflow gives an entity that it did not find
\* in the utterance the value ""). heard is what the person meant.
Replies == <<
    [intent |-> <<>>, query_text |-> "", parameters |-> {}, heard |-> "silence"],
    [intent |-> YESNO_YES, query_text |-> "ja", parameters |-> {}, heard |-> "yes"],
    [intent |-> YESNO_NO, query_text |-> "nee", parameters |-> {}, heard |-> "no"],
    [intent |-> ANSWER_ \o YESNO_DONTKNOW, query_text |-> "weet ik niet",
     parameters |-> {}, heard |-> "dontknow"],
    [intent |-> ANIMALS, query_text |-> "een hond",
     parameters |-> {<<"animals", "hond">>}, heard |-> "animal"],
    [intent |-> ANIMALS, query_text |-> "dieren zijn leuk",
     parameters |-> {<<"animals", "">>}, heard |-> "no animal named"],
    [intent |-> ANIMALS, query_text |-> "dieren", parameters |-> {},
     heard |-> "no animal named"],
    [intent |-> FOOD, query_text |-> "mijn hond eet brood",
     parameters |-> {<<"animals", "hond">>, <<"food", "brood">>}, heard |-> "food"],
    [intent |-> <<>>, query_text |-> "bla bla", parameters |-> {}, heard |-> "noise"]
    >>

ReplyIds == DOMAIN Replies

HasKey(parameters, key) == \E p \in parameters : p[1] = key

Lookup(parameters, key) == (CHOOSE p \in parameters : p[1] = key)[2]

\* ------------------------------------------------- the completion service
GptFailure == "GptFailure"

GptOutcomes == {GptFailure, "", "Stop", "stop", "Hoe heet je hond?"}

\* The outcome of the k-th completion request.
GptOutcome(k) == gptScript[IF k <= Len(gptScript) THEN k ELSE Len(gptScript)]

\* str.lower on the responses of the completion service
Lower(text) == IF text = "Stop" THEN "stop"
               ELSE IF text = "Hoe heet je hond?" THEN "hoe heet je hond?"
               ELSE text

InitServices ==
    /\ spoken = <<>>
    /\ exc = "none"
    /\ gptReqs = 0
    /\ recogReqs = 0

\* ------------------------------------------------------ the driver's state
DefaultMaxAttempts == 2

NoFrame == [fn |-> "none", question |-> "", n |-> 0, attempts |-> 0, at |-> "none",
            ret |-> "none", var |-> "none"]

NewFrame(fn, question, max_attempts, ret, var) ==
    [fn |-> fn, question |-> question, n |-> max_attempts, attempts |-> 0,
     at |-> "loop", ret |-> ret, var |-> var]

NoLocals == [wil_kletsen |-> None, lievelingsdier |-> None,
             waarom_lievelingsdier |-> None, vervolg_vraag |-> None,
             waarom_lievelingsdier_2 |-> None, reactie |-> None]

NoLast == [fn |-> "none", n |-> 0, value |-> None]

DriverIdle ==
    /\ frame = NoFrame
    /\ loc = NoLocals
    /\ last = NoLast
    /\ replies = <<>>
    /\ callSays = 0
    /\ llmCalls = 0
    /\ notRecognized = 0
    /\ speakerReqs = 0

\* --------------------------------------------------- ConversationDemo.say
\* Line 103, isinstance(device, Nao): device is the module that line 9
\* imports from sic_framework.devices, not self.device, and a module is no
\* instance of Nao.
DeviceModuleIsNao == FALSE

\* Lines 101-107: the speech output of one call of say.
DemoSayOut(dev, text) ==
    IF dev = "Desktop" THEN <<[via |-> "espeak", text |-> text]>>
    ELSE IF dev = "Pepper" \/ DeviceModuleIsNao THEN <<[via |-> "tts", text |-> text]>>
    ELSE <<>>

DemoSay(text) ==
    /\ spoken' = spoken \o DemoSayOut(device, text)
    /\ notRecognized' = notRecognized + (IF DemoSayOut(device, text) = <<>> THEN 1 ELSE 0)

\* ---------------------------------------------------- the ask primitives
LoopCondInclusive(attempts, max_attempts) == attempts <= max_attempts

\* while attempts < max_attempts: (memo_demo.py:124, 147, 167, memo_llm.py:88)
LoopCond(attempts, max_attempts) == attempts < max_attempts

Ret(value) == [ret |-> TRUE, value |-> value]

NoRet == [ret |-> FALSE, value |-> None]

AskYesnoResultShort(reply) ==
    IF reply.intent # <<>>
    THEN IF Contains(<<"y", "e", "s">>, reply.intent) THEN Ret("yes")
         ELSE IF Contains(<<"n", "o">>, reply.intent) THEN Ret("no")
         ELSE IF Contains(<<"d", "o", "n", "t", "k", "n", "o", "w">>, reply.intent)
              THEN Ret("dontknow")
         ELSE NoRet
    ELSE NoRet

\* ask_yesno, lines 134-140: what the body does with one reply.
AskYesnoResult(reply) ==
    IF reply.intent # <<>>
    THEN IF Contains(YESNO_YES, reply.intent) THEN Ret("yes")
         ELSE IF Contains(YESNO_NO, reply.intent) THEN Ret("no")
         ELSE IF Contains(YESNO_DONTKNOW, reply.intent) THEN Ret("dontknow")
         ELSE NoRet
    ELSE NoRet

\* ask_entity, lines 157-160.
AskEntityResult(reply, target_intent, target_entity) ==
    IF reply.intent # <<>>
    THEN IF Contains(target_intent, reply.intent)
         THEN IF reply.parameters # {} /\ HasKey(reply.parameters, target_entity)
              THEN Ret(Lookup(reply.parameters, target_entity))
              ELSE NoRet
         ELSE NoRet
    ELSE NoRet

\* ask_open, lines 177-178.
AskOpenResult(reply) ==
    IF reply.query_text # "" THEN Ret(reply.query_text) ELSE NoRet

ListenResultNever(reply) == NoRet

\* listen, lines 96-97.
ListenResult(reply) ==
    IF reply.query_text # "" THEN Ret(reply.query_text) ELSE NoRet

AskFns == {"ask_yesno", "ask_entity", "ask_open", "listen"}

\* A primitive returns value to its caller: run assigns it to a local
\* variable and goes on, a direct call is over.
Return(value) ==
    /\ last' = [fn |-> frame.fn, n |-> frame.n, value |-> value]
    /\ loc' = IF frame.var = "none" THEN loc ELSE [loc EXCEPT ![frame.var] = value]
    /\ pc' = frame.ret
    /\ frame' = NoFrame

\* The body of the loop after the request: return on a match, else
\* attempts += 1.
AfterReply(id, result) ==
    /\ recogReqs' = recogReqs + 1
    /\ replies' = Append(replies, id)
    /\ IF result.ret
       THEN Return(result.value)
       ELSE /\ frame' = [frame EXCEPT !.attempts = @ + 1, !.at = "loop"]
            /\ UNCHANGED <<loc, last, pc>>
    /\ UNCHANGED <<logVars, memoVars, audioVars, spoken, exc, gptScript, gptReqs, device, entry,
                   callSays, llmCalls, notRecognized>>

\* self.say(question) of ask_yesno, ask_entity and ask_open (lines 126, 149,
\* 169), when the loop condition holds.
AskSay ==
    /\ frame.fn \in {"ask_yesno", "ask_entity", "ask_open"}
    /\ frame.at = "loop"
    /\ LoopCond(frame.attempts, frame.n)
    /\ DemoSay(frame.question)
    /\ callSays' = callSays + 1
    /\ frame' = [frame EXCEPT !.at = "request"]
    /\ UNCHANGED <<logVars, memoVars, audioVars, exc, gptScript, gptReqs, recogReqs, device, entry,
                   pc, loc, last, replies, llmCalls>>

\* self.say(question, speed) of listen (memo_llm.py:90).
ListenSay ==
    /\ frame.fn = "listen"
    /\ frame.at = "loop"
    /\ LoopCond(frame.attempts, frame.n)
    /\ spoken' = MemoSay(frame.question)
    /\ callSays' = callSays + 1
    /\ frame' = [frame EXCEPT !.at = "request"]
    /\ UNCHANGED <<logVars, memoVars, audioVars, exc, gptScript, gptReqs, recogReqs, device, entry,
                   pc, loc, last, replies, llmCalls, notRecognized>>

\* The loop condition fails: return None (lines 142, 162, 180, memo_llm.py:99).
AskExhausted ==
    /\ frame.fn \in AskFns
    /\ frame.at = "loop"
    /\ ~LoopCond(frame.attempts, frame.n)
    /\ Return(None)
    /\ UNCHANGED <<logVars, memoVars, audioVars, svcVars, device, entry, replies, callSays,
                   llmCalls, notRecognized>>

\* ask_yesno, lines 129-141.
AskYesnoRequest ==
    /\ frame.fn = "ask_yesno"
    /\ frame.at = "request"
    /\ \E id \in ReplyIds : AfterReply(id, AskYesnoResult(Replies[id]))

\* ask_entity, lines 152-161; run calls it with 'animals' for the context,
\* the target intent and the target entity (line 192).
AskEntityRequest ==
    /\ frame.fn = "ask_entity"
    /\ frame.at = "request"
    /\ \E id \in ReplyIds : AfterReply(id, AskEntityResult(Replies[id], ANIMALS, "animals"))

\* ask_open, lines 172-179.
AskOpenRequest ==
    /\ frame.fn = "ask_open"
    /\ frame.at = "request"
    /\ \E id \in ReplyIds : AfterReply(id, AskOpenResult(Replies[id]))

\* listen, memo_llm.py:93-98.
ListenRequest ==
    /\ frame.fn = "listen"
    /\ frame.at = "request"
    /\ \E id \in ReplyIds : AfterReply(id, ListenResult(Replies[id]))

\* ------------------------------------ llm_request and MemoLLM.llm_action
LlmRequestRetry(k) ==
    IF GptOutcome(k + 1) = GptFailure
    THEN [reqs |-> 2, outcome |-> GptOutcome(k + 2)]
    ELSE [reqs |-> 1, outcome |-> GptOutcome(k + 1)]

\* llm_request, memo_demo.py:183-185, after k earlier requests: one
\* self.gpt.request, whose response is returned and whose failure is not
\* caught.
LlmRequest(k) == [reqs |-> 1, outcome |-> GptOutcome(k + 1)]

\* llm_action, memo_llm.py:136-137: the same, with the prompt of lines
\* 103-134.
LlmAction(k) == [reqs |-> 1, outcome |-> GptOutcome(k + 1)]

\* One call of llm_request or llm_action: r is what it did; a response is
\* assigned to the local variable var and control goes to next.
LlmCall(r, var, next) ==
    /\ llmCalls' = llmCalls + 1
    /\ gptReqs' = gptReqs + r.reqs
    /\ IF r.outcome = GptFailure
       THEN /\ pc' = "raised"
            /\ exc' = GptFailure
            /\ UNCHANGED <<loc, last>>
       ELSE /\ pc' = next
            /\ exc' = exc
            /\ loc' = IF var = "none" THEN loc ELSE [loc EXCEPT ![var] = r.outcome]
            /\ last' = IF var = "none"
                       THEN [fn |-> entry.fn, n |-> 0, value |-> r.outcome]
                       ELSE last
    /\ UNCHANGED <<logVars, memoVars, audioVars, spoken, gptScript, recogReqs, device, entry, frame,
                   replies, callSays, notRecognized>>

\* ------------------------------------------------------- the direct calls
\* The question of a direct call of an ask primitive.
DirectQuestion == "Hou je van dieren?"

\* ask_yesno, ask_entity, ask_open or listen is called with max_attempts =
\* entry.n (lines 123, 145, 165, memo_llm.py:86: attempts = 0).
CallAsk ==
    /\ pc = "call"
    /\ entry.fn \in AskFns
    /\ frame' = NewFrame(entry.fn, DirectQuestion, entry.n, "done", "none")
    /\ pc' = "in_call"
    /\ UNCHANGED <<logVars, memoVars, audioVars, svcVars, device, entry, loc, last, replies,
                   callSays, llmCalls, notRecognized>>

CallLlmRequest ==
    /\ pc = "call"
    /\ entry.fn = "llm_request"
    /\ LlmCall(LlmRequest(gptReqs), "none", "done")

CallLlmAction ==
    /\ pc = "call"
    /\ entry.fn = "llm_action"
    /\ LlmCall(LlmAction(gptReqs), "none", "done")

\* say is called with the text of DirectQuestion (lines 100-107).
CallSay ==
    /\ pc = "call"
    /\ entry.fn = "say"
    /\ DemoSay(DirectQuestion)
    /\ callSays' = callSays + 1
    /\ pc' = "done"
    /\ UNCHANGED <<logVars, memoVars, audioVars, exc, gptScript, gptReqs, recogReqs, device,
                   entry, frame, loc, last, replies, llmCalls>>

\* --------------------------------------------- ConversationDemo.play_audio
\* No audio_file: play_audio is not the call being made.
NoClip == 0

\* The sample widths wf.getsampwidth() can give (line 112): 1 to 4 bytes.
SampleWidths == 1..4

\* Line 117: the format is 16-bit, 2 bytes per sample.
RequiredSampleWidth == 2

\* Line 118: the ValueError that names the sample width found.
SampleWidthError(sample_width) ==
    IF sample_width = 1
    THEN "ValueError: WAV file is not 16-bit audio. Sample width = 1 bytes."
    ELSE IF sample_width = 3
    THEN "ValueError: WAV file is not 16-bit audio. Sample width = 3 bytes."
    ELSE "ValueError: WAV file is not 16-bit audio. Sample width = 4 bytes."

PlayAudioCheckOff(sample_width) == FALSE

\* Line 117: if sample_width != 2.
PlayAudioCheck(sample_width) == sample_width # RequiredSampleWidth

\* Lines 110-120: the clip is opened and its parameters read; a sample width
\* other than 2 raises ValueError, which leaves the with block and the call;
\* else the frames go to the speaker in one request.
PlayAudio ==
    /\ pc = "call"
    /\ entry.fn = "play_audio"
    /\ IF PlayAudioCheck(clip)
       THEN /\ pc' = "raised"
            /\ exc' = SampleWidthError(clip)
            /\ UNCHANGED speakerReqs
       ELSE /\ pc' = "done"
            /\ speakerReqs' = speakerReqs + 1
            /\ UNCHANGED exc
    /\ UNCHANGED <<logVars, memoVars, clip, spoken, gptScript, gptReqs, recogReqs, device,
                   entry, frame, loc, last, replies, callSays, llmCalls, notRecognized>>

\* --------------------------------------------------- ConversationDemo.run
Hallo == "Hallo, ik ben Memo de robot."
HouJeVanDieren == "Hou je van dieren?"
WatIsJouwLievelingsdier == "Wat is jouw lievelingsdier?"
WatVindJeDaarZoLeukAan == "Wat vind je daar zo leuk aan?"
WatInteressantZeg == "Wat interessant zeg."
Oke == "Oke."
BegreepIkNiet == "Oh dat begreep ik even niet. laten we verder gaan."
HelemaalPrima == "Helemaal prima, dan kletsen we over wat anders"
ClosingDemo == "Wat fijn dat we even konden praten. Ik ga nu weer even rusten."

\* f"Oh een {lievelingsdier}!" (line 194)
OhEen(lievelingsdier) ==
    IF lievelingsdier = "hond" THEN "Oh een hond!" ELSE "Oh een !"

\* The statements self.say(...) of run: the text and the next statement.
RunSayAt(at) ==
    CASE at = "L188" -> [text |-> Hallo, next |-> "L190"]
      [] at = "L194" -> [text |-> OhEen(loc.lievelingsdier), next |-> "L195"]
      [] at = "L208say" -> [text |-> loc.reactie, next |-> "L231"]
      [] at = "L220" -> [text |-> WatInteressantZeg, next |-> "L231"]
      [] at = "L223" -> [text |-> Oke, next |-> "L231"]
      [] at = "L226" -> [text |-> BegreepIkNiet, next |-> "L231"]
      [] at = "L229" -> [text |-> HelemaalPrima, next |-> "L231"]
      [] at = "L231" -> [text |-> ClosingDemo, next |-> "done"]

RunSay ==
    /\ pc \in {"L188", "L194", "L208say", "L220", "L223", "L226", "L229", "L231"}
    /\ DemoSay(RunSayAt(pc).text)
    /\ pc' = RunSayAt(pc).next
    /\ UNCHANGED <<logVars, memoVars, audioVars, exc, gptScript, gptReqs, recogReqs, device, entry,
                   frame, loc, last, replies, callSays, llmCalls>>

\* The calls of the ask primitives in run (lines 190, 192, 195, 206), each
\* with the default max_attempts.
RunCallAt(at) ==
    CASE at = "L190" -> NewFrame("ask_yesno", HouJeVanDieren, DefaultMaxAttempts,
                                 "L191", "wil_kletsen")
      [] at = "L192" -> NewFrame("ask_entity", WatIsJouwLievelingsdier, DefaultMaxAttempts,
                                 "L193", "lievelingsdier")
      [] at = "L195" -> NewFrame("ask_open", WatVindJeDaarZoLeukAan, DefaultMaxAttempts,
                                 "L196", "waarom_lievelingsdier")
      [] at = "L206" -> NewFrame("ask_open", loc.vervolg_vraag, DefaultMaxAttempts,
                                 "L207", "waarom_lievelingsdier_2")

RunCall ==
    /\ pc \in {"L190", "L192", "L195", "L206"}
    /\ frame' = RunCallAt(pc)
    /\ pc' = "in_call"
    /\ replies' = <<>>
    /\ callSays' = 0
    /\ last' = NoLast
    /\ UNCHANGED <<logVars, memoVars, audioVars, svcVars, device, entry, loc, llmCalls,
                   notRecognized>>

\* The tests of run (lines 191, 193, 196, 205, 207).
RunBranchAt(at) ==
    CASE at = "L191" -> IF Truthy(loc.wil_kletsen) /\ loc.wil_kletsen = "yes"
                        THEN "L192" ELSE "L229"
      [] at = "L193" -> IF Truthy(loc.lievelingsdier) THEN "L194" ELSE "L226"
      [] at = "L196" -> IF Truthy(loc.waarom_lievelingsdier) THEN "L197" ELSE "L223"
      [] at = "L205" -> IF Truthy(loc.vervolg_vraag) THEN "L206" ELSE "L220"
      [] at = "L207" -> IF Truthy(loc.waarom_lievelingsdier_2) THEN "L208" ELSE "L231"

RunBranch ==
    /\ pc \in {"L191", "L193", "L196", "L205", "L207"}
    /\ pc' = RunBranchAt(pc)
    /\ UNCHANGED <<logVars, memoVars, audioVars, svcVars, device, entry, frame, loc, last, replies,
                   callSays, llmCalls, notRecognized>>

\* The calls of llm_request in run (lines 197 and 208).
RunLlmRequest ==
    \/ /\ pc = "L197"
       /\ LlmCall(LlmRequest(gptReqs), "vervolg_vraag", "L205")
    \/ /\ pc = "L208"
       /\ LlmCall(LlmRequest(gptReqs), "reactie", "L208say")

Writer(t) ==
    \/ WriterOpen(t)
    \/ WriterGet(t)
    \/ WriterWake(t)
    \/ WriterWrite(t)
    \/ WriterFlush(t)
    \/ WriterClose(t)
    \/ WriterReturn(t)

\* ------------------------------------------------------ the specifications
\* One MemoLLM object: its logging methods and run are called on the main
\* thread while its log_writer threads run.
Init ==
    /\ InitMemo
    /\ InitServices
    /\ gptScript \in {<<o>> : o \in GptOutcomes}
    /\ DriverIdle
    /\ device = "Pepper"
    /\ entry = [fn |-> "none", n |-> 0]
    /\ pc = "none"
    /\ clip = NoClip

Next ==
    \/ \E id \in LogIds : StartLogging(id)
    \/ StartLoggingPut
    \/ \E s \in Speakers, x \in Texts : LogUtterance(s, x)
    \/ StopLogging
    \/ StopLoggingJoin
    \/ RunEnter
    \/ RunStartLogging
    \/ InterruptTry
    \/ RunExceptSay
    \/ RunExceptStop
    \/ RunExceptJoin
    \/ InterruptHandler
    \/ \E t \in Objects : Writer(t)

Spec == Init /\ [][Next]_vars

\* The same, with the threads scheduled fairly: a log_writer thread that can
\* take a step takes one, and so does the main thread once its join can
\* return.
FairSpec ==
    /\ Spec
    /\ \A t \in Objects : WF_vars(Writer(t))
    /\ WF_vars(StopLoggingJoin)

\* One top-level call on the control thread: an ask primitive with
\* max_attempts in 0..MaxAttempts, llm_request, llm_action, say, play_audio
\* or ConversationDemo.run.
Devices == {"Desktop", "Pepper", "Nao", "Other"}

Entries ==
    {[fn |-> f, n |-> n] : f \in AskFns, n \in 0..MaxAttempts}
    \cup {[fn |-> f, n |-> 0] : f \in {"llm_request", "llm_action", "run", "say",
                                       "play_audio"}}

InitDriver ==
    /\ InitMemo
    /\ InitServices
    /\ DriverIdle
    /\ entry \in Entries
    /\ pc = IF entry.fn = "run" THEN "L188" ELSE "call"
    /\ device \in IF entry.fn \in {"listen", "llm_action"} THEN {"Pepper"}
                  ELSE IF entry.fn = "play_audio" THEN Devices \ {"Other"}
                  ELSE Devices
    /\ gptScript \in IF entry.fn = "run"
                     THEN {<<a, b>> : a \in GptOutcomes, b \in GptOutcomes}
                     ELSE IF entry.fn \in {"llm_request", "llm_action"}
                     THEN {<<a>> : a \in GptOutcomes}
                     ELSE {<<"">>}
    /\ clip \in IF entry.fn = "play_audio" THEN SampleWidths ELSE {NoClip}

NextDriver ==
    \/ CallAsk
    \/ AskSay
    \/ ListenSay
    \/ AskExhausted
    \/ AskYesnoRequest
    \/ AskEntityRequest
    \/ AskOpenRequest
    \/ ListenRequest
    \/ CallLlmRequest
    \/ CallLlmAction
    \/ CallSay
    \/ PlayAudio
    \/ RunSay
    \/ RunCall
    \/ RunBranch
    \/ RunLlmRequest

SpecDriver == InitDriver /\ [][NextDriver]_vars

\* ================================================================ claims
\* What a file holds when exactly these items were written to it, one line
\* per item.
RECURSIVE FileLines(_)
FileLines(items) ==
    IF items = <<>> THEN <<>> ELSE <<Head(items), NL>> \o FileLines(Tail(items))

\* What the sessions up to t have flushed to the file of log_id, in the
\* order of the sessions.
RECURSIVE Flushed(_, _)
Flushed(log_id, t) ==
    IF t = 0 THEN <<>>
    ELSE Flushed(log_id, t - 1) \o (IF thr[t].path = log_id THEN out[t] ELSE <<>>)

\* C1: in every state of every interleaving of the main thread and the
\* writer, what the writer of a session has put in the file is a prefix of
\* the items put on that session's queue, in the order they were put, each
\* item followed by one line end; the exit signal is never written; and each
\* file holds the lines of its sessions in the order of the sessions.
C1_SubmissionOrder ==
    /\ \A t \in Objects :
        \E k \in 0..Len(put[t]) :
            /\ out[t] = FileLines(SubSeq(put[t], 1, k))
            /\ \A i \in 1..k : put[t][i] # ExitSignal
    /\ \A id \in DOMAIN files : files[id] = Flushed(id, sessions)

C1_Witness ==
    \E t \in Objects :
        out[t] = FileLines(<<StartMarker, Record("Memo", "Hallo"),
                             Record("Persoon", "Hallo")>>)

\* C2: when stop_logging has returned after a start_logging (called
\* directly, or by the except clause of run, which then returns), the writer
\* thread has terminated and no log file is open.
StopLoggingReturned == returned = "stop_logging" \/ mainPc = "run_returned"

C2_StopLeavesNoWriter ==
    (StopLoggingReturned /\ log_thread # NoObject) =>
        /\ thr[log_thread].pc = "dead"
        /\ \A t \in Objects : ~Alive(t) /\ ~FileOpen(t)

C2_Witness ==
    /\ returned = "stop_logging"
    /\ log_thread # NoObject
    /\ out[log_thread] = FileLines(<<StartMarker, Record("Memo", "Hallo")>>)

\* The closing utterances MemoLLM has spoken.
ClosingsSpoken == Cardinality({i \in DOMAIN spoken : spoken[i].text = ClosingMemo})

RunEnded == mainPc \in {"run_returned", "run_raised"}

\* C5: a run of MemoLLM without interrupt, in which the language model
\* answers the first request with the word stop in any case, ends by
\* returning, with no recognition request issued, the closing utterance
\* spoken and logging stopped.
C5_StopSentinelEndsRun ==
    (RunEnded /\ interrupts = 0 /\ Lower(GptOutcome(1)) = "stop") =>
        /\ mainPc = "run_returned"
        /\ recogReqs = 0
        /\ ClosingsSpoken = 1
        /\ ~SessionActive

C7_LogUtteranceBeforeStart ==
    (sessions = 0 /\ utterCalls > 0) =>
        /\ log_queue = NoObject
        /\ log_thread = NoObject
        /\ \A q \in Objects : queue[q] = <<>> /\ put[q] = <<>>
        /\ \A t \in Objects : thr[t] = NoThread /\ out[t] = <<>>
        /\ DOMAIN files = {}
        /\ ~logsDir

C7_Witness ==
    /\ sessions = 0
    /\ utterCalls = 2
    /\ returned = "log_utterance"

\* ------------------------------------------------- the ask primitives
\* The call of an ask primitive that is being executed or has returned.
AskCall == IF frame.fn \in AskFns THEN frame.fn ELSE last.fn

AskMaxAttempts == IF frame.fn \in AskFns THEN frame.n ELSE last.n

AskReturned == frame.fn = "none" /\ last.fn \in AskFns

\* A match, as the claims name it for each primitive: a yes, no or don't-know
\* intent; the target intent carrying the target entity; a non-empty
\* transcript.
IsMatch(fn, id) ==
    CASE fn = "ask_yesno" -> Replies[id].heard \in {"yes", "no", "dontknow"}
      [] fn = "ask_entity" -> /\ Replies[id].heard \in {"animal", "no animal named"}
                              /\ \E p \in Replies[id].parameters : p[1] = "animals"
      [] fn \in {"ask_open", "listen"} -> Replies[id].heard # "silence"

Matches(fn) == {k \in DOMAIN replies : IsMatch(fn, replies[k])}

FirstMatch(fn) == CHOOSE k \in Matches(fn) : \A j \in Matches(fn) : k <= j

\* C3: a call of an ask primitive with max_attempts = n whose replies so far
\* hold no match has issued at most n recognition requests, and when it has
\* returned it has issued exactly n requests and n questions and has
\* returned None.
C3_MissesExhaustAttempts ==
    (AskCall \in AskFns /\ Matches(AskCall) = {}) =>
        /\ Len(replies) <= AskMaxAttempts
        /\ AskReturned =>
            /\ Len(replies) = AskMaxAttempts
            /\ callSays = AskMaxAttempts
            /\ last.value = None
            /\ pc # "raised"

C3_Witness ==
    /\ AskReturned
    /\ last.fn = "ask_entity"
    /\ last.n = 3
    /\ replies = <<7, 8, 1>>
    /\ last.value = None

\* C4: a call of an ask primitive whose replies hold a match has returned,
\* the match is its last reply, the k-th, and it issued exactly k recognition
\* requests and k questions, k <= max_attempts: nothing is asked or
\* requested after the first match.
C4_StopsAtFirstMatch ==
    (AskCall \in AskFns /\ Matches(AskCall) # {}) =>
        /\ AskReturned
        /\ Matches(AskCall) = {Len(replies)}
        /\ callSays = Len(replies)
        /\ Len(replies) <= AskMaxAttempts
        /\ last.value # None

C4_Witness ==
    /\ AskReturned
    /\ last.fn = "listen"
    /\ last.n = 3
    /\ replies = <<1, 9>>
    /\ last.value = "bla bla"
    /\ Len(spoken) = 2

\* C8: ask_yesno returns yes, no, dontknow (the value the contract calls
\* unknown) or None: what the person meant in the first reply that is a yes,
\* a no or a don't-know, and None when the attempts are exhausted without
\* one; a first reply with the intent "yesno_no" makes it return "no" after
\* one recognition request.
C8_YesNoMapping ==
    (AskReturned /\ last.fn = "ask_yesno") =>
        /\ last.value \in {"yes", "no", "dontknow", None}
        /\ IF Matches("ask_yesno") = {}
           THEN last.value = None /\ Len(replies) = last.n
           ELSE /\ last.value = Replies[replies[FirstMatch("ask_yesno")]].heard
                /\ Len(replies) = FirstMatch("ask_yesno")
        /\ (replies # <<>> /\ Replies[replies[1]].intent = YESNO_NO) =>
               (last.value = "no" /\ Len(replies) = 1)

C8_Witness ==
    /\ AskReturned
    /\ last.fn = "ask_yesno"
    /\ Len(replies) = 1
    /\ Replies[replies[1]].intent = YESNO_NO
    /\ last.value = "no"

\* A reply that gives ask_entity a value to use: the target intent with a
\* non-empty value of the target entity.
Usable(id) ==
    /\ Replies[id].intent = ANIMALS
    /\ \E p \in Replies[id].parameters : p[1] = "animals" /\ p[2] # ""

UsableReplies == {k \in DOMAIN replies : Usable(replies[k])}

\* C9: ask_entity returns an entity value only from a reply with the target
\* intent and the target entity, at the first such reply; every other reply,
\* a reply with the target intent and no usable value of the entity
\* included, counts as a miss: the question is asked again until
\* max_attempts requests were made, and then None is returned.
C9_EntityMismatchIsMiss ==
    (AskReturned /\ last.fn = "ask_entity") =>
        IF UsableReplies = {}
        THEN last.value = None /\ Len(replies) = last.n
        ELSE /\ UsableReplies = {Len(replies)}
             /\ last.value = Lookup(Replies[replies[Len(replies)]].parameters, "animals")

\* C10: every call of llm_request or llm_action issues one completion
\* request, so the requests issued equal the calls made; a failed request
\* ends the top-level call, run included, with that failure and nothing
\* happens afterwards; a request that succeeds gives the call its response.
C10_OneRequestNoRecovery ==
    /\ gptReqs = llmCalls
    /\ \A k \in 1..(gptReqs - 1) : GptOutcome(k) # GptFailure
    /\ (gptReqs > 0 /\ GptOutcome(gptReqs) = GptFailure) <=> exc = GptFailure
    /\ exc = GptFailure => (pc = "raised" /\ ~ENABLED NextDriver)
    /\ (entry.fn \in {"llm_request", "llm_action"} /\ pc = "done") =>
           (gptReqs = 1 /\ last.value = GptOutcome(1))

C10_Witness ==
    /\ entry.fn = "run"
    /\ pc = "raised"
    /\ gptReqs = 2
    /\ spoken # <<>>

\* ------------------------------------------------- the logger's two states
HasExit(items) == \E i \in DOMAIN items : items[i] = ExitSignal

\* Between the return of start_logging and the call of stop_logging: the
\* start marker of the current session was put, the exit signal was not.
LoggingState ==
    /\ log_queue # NoObject
    /\ put[log_queue] # <<>>
    /\ ~HasExit(put[log_queue])

\* Before the first start_logging, or after stop_logging has returned: the
\* exit signal was put and the main thread has left the join (an interrupt
\* that breaks off the handler's stop_logging leaves a call that never
\* returned).
IdleState ==
    \/ sessions = 0
    \/ /\ log_queue # NoObject
       /\ HasExit(put[log_queue])
       /\ mainPc \notin {"stop_join", "run_except_join"}
       /\ exc # "KeyboardInterrupt"

Workers == {t \in Objects : Alive(t)}

C12_SampleWidthChecked ==
    /\ speakerReqs > 0 =>
        /\ entry.fn = "play_audio"
        /\ clip = 2
        /\ speakerReqs = 1
    /\ (entry.fn = "play_audio" /\ pc # "call") =>
        IF clip = 2
        THEN pc = "done" /\ exc = "none" /\ speakerReqs = 1
        ELSE /\ pc = "raised"
             /\ exc = SampleWidthError(clip)
             /\ exc # "none"
             /\ speakerReqs = 0
             /\ spoken = <<>>
             /\ ~ENABLED NextDriver

C12_Witness ==
    /\ entry.fn = "play_audio"
    /\ clip = 3
    /\ pc = "raised"
    /\ exc = "ValueError: WAV file is not 16-bit audio. Sample width = 3 bytes."
    /\ speakerReqs = 0

\* ------------------------------------------------------ the start marker
\* C13: when start_logging has returned, the start marker is on the record
\* of its session's queue; in every session the marker is the first item
\* put on the queue and is put once, so every utterance record comes after
\* it; and whatever the worker of a session has written begins with the
\* marker line.
C13_MarkerFirst ==
    /\ (log_queue # NoObject /\ mainPc # "start_put") => put[log_queue] # <<>>
    /\ \A q \in Objects :
        /\ put[q] # <<>> => put[q][1] = StartMarker
        /\ \A i \in 2..Len(put[q]) : put[q][i] # StartMarker
    /\ \A t \in Objects :
        out[t] # <<>> => SubSeq(out[t], 1, 2) = <<StartMarker, NL>>

C13_Witness ==
    /\ sessions = 2
    /\ out[1] = FileLines(<<StartMarker, Record("Persoon", "Hallo")>>)
    /\ out[2] = FileLines(<<StartMarker, Record("Memo", "Hallo")>>)
    /\ files["a"] = out[1] \o out[2]

\* ------------------------------------------------- the scripted run
\* The devices on which say produces speech.
Speaking(dev) == DemoSayOut(dev, "x") # <<>>

\* What run says when an ask primitive gave it nothing to go on.
FallbackTexts == {HelemaalPrima, BegreepIkNiet, Oke}

\* C14: when the scripted run comes to its closing remark after an ask
\* primitive that returned None, having exhausted its attempts, no error
\* was raised and the last thing the run said is a fallback utterance, not
\* the unanswered question.
C14_FallbackAfterAbsent ==
    (/\ entry.fn = "run"
     /\ Speaking(device)
     /\ pc = "L231"
     /\ last.fn \in AskFns
     /\ last.value = None) =>
        /\ exc = "none"
        /\ Len(replies) = DefaultMaxAttempts
        /\ spoken # <<>>
        /\ spoken[Len(spoken)].text \in FallbackTexts

\* The closing remarks the scripted run has spoken.
ClosingRemarks == {i \in DOMAIN spoken : spoken[i].text = ClosingDemo}

\* C15: a scripted run on a device of a supported kind that has ended
\* without a failure has spoken the closing remark exactly once, as its last
\* speech output, and does nothing after it: no recognition or completion
\* request follows.
C15_ClosingRemarkLast ==
    (entry.fn = "run" /\ device \in {"Desktop", "Pepper", "Nao"} /\ pc = "done") =>
        /\ exc = "none"
        /\ ClosingRemarks = {Len(spoken)}
        /\ spoken # <<>>
        /\ ~ENABLED NextDriver

\* --------------------------------------------------------------- shutdown
\* The place of the first exit signal among the items put on a queue, and
\* the items put before it: the marker and the records of the session.
FirstExit(items) ==
    CHOOSE i \in DOMAIN items :
        items[i] = ExitSignal /\ \A j \in 1..(i - 1) : items[j] # ExitSignal

BeforeStop(items) == SubSeq(items, 1, FirstExit(items) - 1)

\* C16: when stop_logging has returned after a start_logging, every item
\* put on the session's queue before the call of stop_logging is in the log
\* file, one line each, in order; the worker holds nothing unwritten; and
\* none of those items is still on the queue (what the queue holds was put
\* after the exit signal).
C16_NoRecordLost ==
    (StopLoggingReturned /\ log_thread # NoObject) =>
        /\ HasExit(put[log_queue])
        /\ out[log_thread] = FileLines(BeforeStop(put[log_queue]))
        /\ thr[log_thread].buf = <<>>
        /\ thr[log_thread].item = <<>>
        /\ files[thr[log_thread].path] = Flushed(thr[log_thread].path, sessions)
        /\ Len(queue[log_queue]) = Len(put[log_queue]) - FirstExit(put[log_queue])

C16_Witness ==
    /\ returned = "stop_logging"
    /\ log_thread # NoObject
    /\ stops = 1
    /\ put[log_queue] = <<StartMarker, Record("Memo", "Hallo"),
                          Record("Persoon", "Hallo"), ExitSignal>>
    /\ queue[log_queue] = <<>>
    /\ files["a"] = FileLines(<<StartMarker, Record("Memo", "Hallo"),
                                Record("Persoon", "Hallo")>>)

\* C17: with the threads scheduled fairly and start_logging never called
\* while a session is active, every stop_logging call returns: one that
\* waits in join for the worker eventually leaves it, after a first or a
\* repeated stop alike, and one made before any start_logging never waits.
C17_StopLoggingReturns ==
    /\ (mainPc = "stop_join") ~> (mainPc = "idle" /\ returned = "stop_logging")
    /\ [](sessions = 0 => mainPc # "stop_join")

C17_Witness ==
    /\ returned = "stop_logging"
    /\ stops = 2
    /\ sessions = 1
    /\ thr[1].pc = "dead"
    /\ queue[1] = <<ExitSignal>>
    /\ out[1] = FileLines(<<StartMarker>>)

\* -------------------------------------------------------------------- say
\* C18: a call of say on a Desktop produces one speech output through
\* espeak, on a Pepper or a Nao one through the text-to-speech of the robot,
\* each without an error message; on a device of no supported kind it
\* produces no speech and prints the "device not recognized" error once.
C18_SayPerDeviceKind ==
    (entry.fn = "say" /\ pc = "done") =>
        IF device \in {"Desktop", "Pepper", "Nao"}
        THEN /\ spoken = <<[via |-> IF device = "Desktop" THEN "espeak" ELSE "tts",
                            text |-> DirectQuestion]>>
             /\ notRecognized = 0
        ELSE /\ spoken = <<>>
             /\ notRecognized = 1

====
